---- MODULE Spec2Model ----
(***************************************************************************)
(* Location acquisition and accuracy assessment of node-tracker-frontend   *)
(* (src/src/api.js): the geolocationAPI helpers (watchPosition, clearWatch,*)
(* analyzeLocationAccuracy, getMultipleReadings) and the auto-tracking     *)
(* session kept by the MapView component (startAutoTracking,               *)
(* stopAutoTracking, handleTrackerSelect, handleDeleteTracker).            *)
(*                                                                         *)
(* Five specifications share the module:                                   *)
(*   Spec          the MapView tracking session over the platform's watch  *)
(*                 primitive;                                              *)
(*   SpecApi       Spec plus direct calls of geolocationAPI.clearWatch;    *)
(*   SpecReadings  one call of geolocationAPI.getMultipleReadings;         *)
(*   SpecClassify  geolocationAPI.analyzeLocationAccuracy on one sample;   *)
(*   SpecErrors    the error callbacks of the three acquiring entry points.*)
(*                                                                         *)
(* A handler runs to completion on the event loop, so each handler is one  *)
(* action; the part of an async handler after an await is its own action   *)
(* and reads the state its closure captured when the handler was called.   *)
(***************************************************************************)
EXTENDS Integers, Sequences, FiniteSets, TLC

VARIABLES
    \* ---- platform (navigator.geolocation) ----
    hasGeo,           \* navigator.geolocation is present
    nextWatchId,      \* the id the platform hands out for the next watch
    watches,          \* registered watch subscriptions: records [id, sel]
    issued,           \* every id the platform has handed out
    stray,            \* cancelled watches with a sample still on its way to the callback
    \* ---- MapView state (useState cells) ----
    trackers,         \* ids of the trackers in the list
    selectedTracker,  \* selected tracker id, or NULL
    isTracking,
    watchId,          \* stored subscription handle, or NULL
    error,
    locationStatus,
    \* ---- requests in flight ----
    pendingDeletes,   \* handleDeleteTracker calls awaiting the backend
    pendingUpdates,   \* updateTrackerLocation calls awaiting the backend
    lastUpdate,       \* tracker id of the last location update sent, or NULL
    \* ---- history of the last operation ----
    lastOp,           \* name of the last handler that ran
    lastArg,          \* the handle it was about, or NULL
    pre,              \* the session and the platform's watches just before it ran
    threw,            \* the last handler raised an exception
    ops,              \* handler calls made so far
    startedSinceStop, \* startAutoTracking was called after the last stop
    effects,          \* what the last handler called: [onError, update]
    \* ---- getMultipleReadings (one call) ----
    mrCount,          \* the count argument
    mrState,          \* "idle" | "pending" | "resolved" | "rejected"
    readings,         \* the readings array
    currentCount,
    outstanding,      \* one-shot queries the platform has not answered yet
    timers,           \* setTimeout(getReading, interval) timers pending
    mrResult,         \* the value the promise resolved with
    mrError,          \* the error the promise rejected with
    acquired,         \* samples the platform delivered, in delivery order
    queriesIssued,    \* getCurrentPosition calls made
    timersScheduled,
    timersFired,
    failedAt,         \* number of the query that failed, or 0
    failure,          \* the error the platform reported for it
    \* ---- analyzeLocationAccuracy ----
    position,         \* the sample: position.coords
    protocol,         \* window.location.protocol
    hostname,         \* window.location.hostname
    support,          \* how checkGeolocationSupport's promise settled, "unchecked" before
    analysis,         \* the returned analysis, accuracyLevel "none" before the call
    \* ---- error channels of geolocationAPI ----
    delivered         \* per entry point, the last error it delivered: [kind, message]

platformVars == <<hasGeo, nextWatchId, watches, issued, stray>>
viewVars     == <<trackers, selectedTracker, isTracking, watchId, error, locationStatus>>
flightVars   == <<pendingDeletes, pendingUpdates, lastUpdate>>
historyVars  == <<lastOp, lastArg, pre, threw, ops, startedSinceStop, effects>>
trackVars    == <<platformVars, viewVars, flightVars, historyVars>>
readingVars  == <<mrCount, mrState, readings, currentCount, outstanding, timers,
                  mrResult, mrError, acquired, queriesIssued, timersScheduled,
                  timersFired, failedAt, failure>>
classifyVars == <<position, protocol, hostname, support, analysis>>
errorVars    == <<delivered>>
vars         == <<trackVars, readingVars, classifyVars, errorVars>>

----------------------------------------------------------------------------
(* Bounds *)

\* tracker ids are 1..NumTrackers
NumTrackers == 2
\* the platform's first watch id is drawn from 0..MaxFirstId: watchPosition
\* returns a long whose value the platform chooses, and the code puts no
\* condition on it, so 0 is among the first ids
MaxFirstId == 1
\* a run of the tracking session makes at most this many handler calls
MaxOps == 5

\* JavaScript null
NULL == -1

Trackers == 1..NumTrackers

\* JavaScript truthiness of a handle: null and 0 are falsy (if (watchId) ...)
Truthy(h) == h # NULL /\ h # 0

WatchIds(ws) == {w.id : w \in ws}


----------------------------------------------------------------------------
(* geolocationAPI.watchPosition / clearWatch *)

WatchErrorKinds == {"PERMISSION_DENIED", "POSITION_UNAVAILABLE", "TIMEOUT", "UNKNOWN"}

\* the message watchPosition's error callback builds from error.code
WatchErrorMessage(kind) ==
    CASE kind = "PERMISSION_DENIED" ->
           "Location access denied. Please enable location services."
      [] kind = "POSITION_UNAVAILABLE" ->
           "Location information is unavailable. Please check your GPS settings."
      [] kind = "TIMEOUT" -> "Location request timed out."
      [] OTHER -> "An unknown error occurred while tracking location."

\* the message requestLocationPermission's error callback builds from error.code
RequestErrorMessage(kind) ==
    CASE kind = "PERMISSION_DENIED" ->
           "Location access denied. Please click 'Allow' when prompted, or enable location services in your browser settings."
      [] kind = "POSITION_UNAVAILABLE" ->
           "Location information is unavailable. Please check your GPS settings and ensure location services are enabled."
      [] kind = "TIMEOUT" -> "Location request timed out. Please try again."
      [] OTHER -> "An unknown error occurred while retrieving location."

\* a watchPosition that returns null without calling errorCallback
watchPosition_Silent ==
    IF ~hasGeo
    THEN [handle |-> NULL, registered |-> FALSE, onError |-> FALSE]
    ELSE [handle |-> nextWatchId, registered |-> TRUE, onError |-> FALSE]

\* watchPosition(callback, errorCallback): without navigator.geolocation it
\* calls errorCallback once and returns null; otherwise it registers a watch
\* with the platform and returns the platform's id.
watchPosition ==
    IF ~hasGeo
    THEN [handle |-> NULL, registered |-> FALSE, onError |-> TRUE]
    ELSE [handle |-> nextWatchId, registered |-> TRUE, onError |-> FALSE]

\* clearWatch(watchId): the subscriptions left registered
clearWatch(h, ws) == IF Truthy(h) THEN {w \in ws : w.id # h} ELSE ws

\* clearWatch dereferences navigator.geolocation only for a truthy handle
clearWatchThrows(h) == Truthy(h) /\ ~hasGeo

----------------------------------------------------------------------------
(* MapView: the auto-tracking session *)

AccuracyText(a) ==
    IF a < 10 THEN "Very High"
    ELSE IF a < 50 THEN "High"
    ELSE IF a < 100 THEN "Medium"
    ELSE "Low"

\* position.accuracy of the samples a watch delivers (metres)
WatchAccuracies == {8, 120}

ActiveStatus(a) ==
    "Auto-tracking active (" \o AccuracyText(a) \o " accuracy: " \o ToString(a) \o "m)"

\* the last handler called neither the session's error callback nor
\* updateTrackerLocation
NoEffects == [onError |-> 0, update |-> NULL]

Snapshot ==
    [isTracking |-> isTracking, watchId |-> watchId, ids |-> WatchIds(watches),
     selectedTracker |-> selectedTracker, locationStatus |-> locationStatus,
     error |-> error, started |-> startedSinceStop]

\* one more handler call, within the budget of the run
Called(op, arg) ==
    /\ ops < MaxOps
    /\ ops' = ops + 1
    /\ lastOp' = op
    /\ lastArg' = arg
    /\ pre' = Snapshot

History(op, arg, thr) ==
    /\ Called(op, arg)
    /\ threw' = thr

\* const startAutoTracking = () => { if (watchId) return; ... }
StartAutoTracking ==
    /\ History("start", NULL, FALSE)
    /\ startedSinceStop' = TRUE
    /\ IF Truthy(watchId)
       THEN /\ effects' = NoEffects
            /\ UNCHANGED <<platformVars, viewVars>>
       ELSE LET r == watchPosition IN
            /\ watches' = IF r.registered
                          THEN watches \cup {[id |-> r.handle, sel |-> selectedTracker]}
                          ELSE watches
            /\ issued' = IF r.registered THEN issued \cup {r.handle} ELSE issued
            /\ nextWatchId' = IF r.registered THEN nextWatchId + 1 ELSE nextWatchId
            /\ effects' = [NoEffects EXCEPT !.onError = IF r.onError THEN 1 ELSE 0]
            /\ error' = IF r.onError
                        THEN "Geolocation is not supported by this browser"
                        ELSE error
            /\ locationStatus' = IF r.onError
                                 THEN "Auto-tracking failed"
                                 ELSE "Starting auto-tracking..."
            /\ watchId' = r.handle
            /\ isTracking' = TRUE
            /\ UNCHANGED <<hasGeo, stray, trackers, selectedTracker>>
    /\ UNCHANGED <<flightVars, readingVars, classifyVars, errorVars>>

\* stopAutoTracking without its if (watchId) test
StopWith_Unguarded(h) ==
    /\ threw' = FALSE
    /\ watches' = clearWatch(h, watches)
    /\ watchId' = NULL
    /\ isTracking' = FALSE
    /\ locationStatus' = "Auto-tracking stopped"

\* the body of stopAutoTracking run with the watchId its closure holds
StopWith(h) ==
    IF Truthy(h)
    THEN IF clearWatchThrows(h)
         THEN /\ threw' = TRUE
              /\ UNCHANGED <<watches, watchId, isTracking, locationStatus>>
         ELSE /\ threw' = FALSE
              /\ watches' = clearWatch(h, watches)
              /\ watchId' = NULL
              /\ isTracking' = FALSE
              /\ locationStatus' = "Auto-tracking stopped"
    ELSE /\ threw' = FALSE
         /\ UNCHANGED <<watches, watchId, isTracking, locationStatus>>

\* const stopAutoTracking = () => { if (watchId) { ... } }
StopAutoTracking ==
    /\ Called("stop", NULL)
    /\ effects' = NoEffects
    /\ StopWith(watchId)
    /\ stray' = stray \cup (watches \ watches')
    /\ startedSinceStop' = FALSE
    /\ UNCHANGED <<hasGeo, nextWatchId, issued, trackers, selectedTracker, error>>
    /\ UNCHANGED <<flightVars, readingVars, classifyVars, errorVars>>

\* the success callback startAutoTracking gave to watchPosition; it reads the
\* selectedTracker its closure captured when the watch was registered
OnSample(w, a) ==
    /\ w \in watches
    /\ History("sample", w.id, FALSE)
    /\ effects' = [NoEffects EXCEPT !.update = w.sel]
    /\ IF w.sel # NULL
       THEN /\ lastUpdate' = w.sel
            /\ pendingUpdates' = pendingUpdates + 1
            /\ locationStatus' = ActiveStatus(a)
       ELSE UNCHANGED <<lastUpdate, pendingUpdates, locationStatus>>
    /\ UNCHANGED <<platformVars, trackers, selectedTracker, isTracking, watchId, error>>
    /\ UNCHANGED <<pendingDeletes, startedSinceStop>>
    /\ UNCHANGED <<readingVars, classifyVars, errorVars>>

\* the same callback run for a sample that was on its way when the watch was
\* cancelled: the closure is still alive and tests nothing but selectedTracker
StraySample(w, a) ==
    /\ w \in stray
    /\ stray' = stray \ {w}
    /\ History("straySample", w.id, FALSE)
    /\ effects' = [NoEffects EXCEPT !.update = w.sel]
    /\ IF w.sel # NULL
       THEN /\ lastUpdate' = w.sel
            /\ pendingUpdates' = pendingUpdates + 1
            /\ locationStatus' = ActiveStatus(a)
       ELSE UNCHANGED <<lastUpdate, pendingUpdates, locationStatus>>
    /\ UNCHANGED <<hasGeo, nextWatchId, watches, issued>>
    /\ UNCHANGED <<trackers, selectedTracker, isTracking, watchId, error>>
    /\ UNCHANGED <<pendingDeletes, startedSinceStop>>
    /\ UNCHANGED <<readingVars, classifyVars, errorVars>>

\* an error callback that ends the session on the first error
OnWatchError_Stops(w, kind) ==
    /\ w \in watches
    /\ History("watchError", w.id, FALSE)
    /\ effects' = [NoEffects EXCEPT !.onError = 1]
    /\ error' = WatchErrorMessage(kind)
    /\ locationStatus' = "Auto-tracking failed"
    /\ watches' = watches \ {w}
    /\ watchId' = NULL
    /\ isTracking' = FALSE
    /\ UNCHANGED <<hasGeo, nextWatchId, issued, stray, trackers, selectedTracker>>
    /\ UNCHANGED <<flightVars, startedSinceStop>>
    /\ UNCHANGED <<readingVars, classifyVars, errorVars>>

\* the error callback startAutoTracking gave to watchPosition
OnWatchError(w, kind) ==
    /\ w \in watches
    /\ History("watchError", w.id, FALSE)
    /\ effects' = [NoEffects EXCEPT !.onError = 1]
    /\ error' = WatchErrorMessage(kind)
    /\ locationStatus' = "Auto-tracking failed"
    /\ UNCHANGED <<platformVars, trackers, selectedTracker, isTracking, watchId>>
    /\ UNCHANGED <<flightVars, startedSinceStop>>
    /\ UNCHANGED <<readingVars, classifyVars, errorVars>>

\* updateTrackerLocation after its await: the backend accepted the update
UpdateResolve ==
    /\ pendingUpdates > 0
    /\ pendingUpdates' = pendingUpdates - 1
    /\ History("updateDone", NULL, FALSE)
    /\ effects' = NoEffects
    /\ UNCHANGED <<platformVars, viewVars, pendingDeletes, lastUpdate>>
    /\ UNCHANGED <<startedSinceStop, readingVars, classifyVars, errorVars>>

\* updateTrackerLocation after its await: the request failed
UpdateReject ==
    /\ pendingUpdates > 0
    /\ pendingUpdates' = pendingUpdates - 1
    /\ error' = "Failed to update tracker location"
    /\ History("updateFailed", NULL, FALSE)
    /\ effects' = NoEffects
    /\ UNCHANGED <<platformVars, trackers, selectedTracker, isTracking, watchId,
                   locationStatus, pendingDeletes, lastUpdate>>
    /\ UNCHANGED <<startedSinceStop, readingVars, classifyVars, errorVars>>

\* const handleTrackerSelect = (tracker) => { setSelectedTracker(tracker); ... }
HandleTrackerSelect(t) ==
    /\ t \in trackers
    /\ selectedTracker' = t
    /\ History("select", NULL, FALSE)
    /\ effects' = NoEffects
    /\ UNCHANGED <<platformVars, trackers, isTracking, watchId, error, locationStatus>>
    /\ UNCHANGED <<flightVars, startedSinceStop>>
    /\ UNCHANGED <<readingVars, classifyVars, errorVars>>

\* handleDeleteTracker up to its await: the request leaves with the closure's
\* selectedTracker and watchId
HandleDeleteTracker(t) ==
    /\ t \in trackers
    /\ pendingDeletes' = pendingDeletes \cup
           {[trackerId |-> t, sel |-> selectedTracker, wid |-> watchId]}
    /\ History("delete", NULL, FALSE)
    /\ effects' = NoEffects
    /\ UNCHANGED <<platformVars, viewVars, pendingUpdates, lastUpdate>>
    /\ UNCHANGED <<startedSinceStop, readingVars, classifyVars, errorVars>>

\* handleDeleteTracker after its await, the backend having deleted the tracker
DeleteResolve(p) ==
    /\ p \in pendingDeletes
    /\ pendingDeletes' = pendingDeletes \ {p}
    /\ trackers' = trackers \ {p.trackerId}
    /\ Called("deleteDone", p.trackerId)
    /\ effects' = NoEffects
    /\ IF p.sel # NULL /\ p.sel = p.trackerId
       THEN /\ selectedTracker' = NULL
            /\ StopWith(p.wid)
            /\ startedSinceStop' = FALSE
       ELSE /\ threw' = FALSE
            /\ UNCHANGED <<selectedTracker, watches, watchId, isTracking,
                           locationStatus, startedSinceStop>>
    /\ stray' = stray \cup (watches \ watches')
    /\ UNCHANGED <<hasGeo, nextWatchId, issued, error, pendingUpdates, lastUpdate>>
    /\ UNCHANGED <<readingVars, classifyVars, errorVars>>

\* handleDeleteTracker after its await, the request having failed
DeleteReject(p) ==
    /\ p \in pendingDeletes
    /\ pendingDeletes' = pendingDeletes \ {p}
    /\ error' = "Failed to delete tracker"
    /\ History("deleteFailed", NULL, FALSE)
    /\ effects' = NoEffects
    /\ UNCHANGED <<platformVars, trackers, selectedTracker, isTracking, watchId,
                   locationStatus, pendingUpdates, lastUpdate>>
    /\ UNCHANGED <<startedSinceStop, readingVars, classifyVars, errorVars>>


\* geolocationAPI.clearWatch(h) called on its own, with any handle
ClearWatchCall(h) ==
    /\ Called("clearWatch", h)
    /\ effects' = NoEffects
    /\ threw' = clearWatchThrows(h)
    /\ watches' = IF clearWatchThrows(h) THEN watches ELSE clearWatch(h, watches)
    /\ stray' = stray \cup (watches \ watches')
    /\ UNCHANGED <<hasGeo, nextWatchId, issued, viewVars, flightVars>>
    /\ UNCHANGED <<startedSinceStop, readingVars, classifyVars, errorVars>>

----------------------------------------------------------------------------
(* The specifications *)

NoError == [code |-> "none", message |-> ""]
NoResult == [lat |-> [num |-> 0, den |-> 1], lng |-> [num |-> 0, den |-> 1],
             accuracy |-> [num |-> 0, den |-> 1], readings |-> <<>>]

ReadingsIdle ==
    /\ mrCount = 0
    /\ mrState = "idle"
    /\ readings = <<>>
    /\ currentCount = 0
    /\ outstanding = 0
    /\ timers = 0
    /\ mrResult = NoResult
    /\ mrError = NoError
    /\ acquired = <<>>
    /\ queriesIssued = 0
    /\ timersScheduled = 0
    /\ timersFired = 0
    /\ failedAt = 0
    /\ failure = NoError

NoCoords == [accuracy |-> 0, altitude |-> NULL, altitudeAccuracy |-> NULL,
             speed |-> NULL, heading |-> NULL]
NoAnalysis == [accuracy |-> NULL, accuracyLevel |-> "none",
               recommendations |-> <<>>, warnings |-> <<>>, info |-> <<>>]

ClassifyIdle ==
    /\ position = NoCoords
    /\ protocol = "https:"
    /\ hostname = "localhost"
    /\ support = "unchecked"
    /\ analysis = NoAnalysis

\* the entry points of geolocationAPI that report acquisition errors
Channels == {"request", "watch", "readings"}

NothingDelivered == [kind |-> "none", message |-> "none"]

\* no entry point has reported an error
ErrorsIdle == delivered = [c \in Channels |-> NothingDelivered]

\* MapView as mounted, the tracker list loaded, nothing subscribed
Mounted ==
    /\ watches = {}
    /\ issued = {}
    /\ trackers = Trackers
    /\ selectedTracker = NULL
    /\ isTracking = FALSE
    /\ watchId = NULL
    /\ error = "none"
    /\ locationStatus = "Getting location..."
    /\ pendingDeletes = {}
    /\ pendingUpdates = 0
    /\ lastUpdate = NULL
    /\ lastOp = "mount"
    /\ lastArg = NULL
    /\ threw = FALSE
    /\ ops = 0
    /\ startedSinceStop = FALSE
    /\ stray = {}
    /\ effects = NoEffects
    /\ pre = Snapshot

\* on any platform: with or without navigator.geolocation, whatever id the
\* platform gives its first watch
TrackInit ==
    /\ hasGeo \in BOOLEAN
    /\ nextWatchId \in 0..MaxFirstId
    /\ Mounted

Init == TrackInit /\ ReadingsIdle /\ ClassifyIdle /\ ErrorsIdle

Next ==
    \/ StartAutoTracking
    \/ StopAutoTracking
    \/ \E w \in watches, a \in WatchAccuracies : OnSample(w, a)
    \/ \E w \in stray, a \in WatchAccuracies : StraySample(w, a)
    \/ \E w \in watches, kind \in WatchErrorKinds : OnWatchError(w, kind)
    \/ UpdateResolve
    \/ UpdateReject
    \/ \E t \in Trackers : HandleTrackerSelect(t)
    \/ \E t \in Trackers : HandleDeleteTracker(t)
    \/ \E p \in pendingDeletes : DeleteResolve(p)
    \/ \E p \in pendingDeletes : DeleteReject(p)

Spec == Init /\ [][Next]_vars

\* null, every handle handed out so far, 0, and one never handed out
Handles == {NULL} \cup (0..nextWatchId)

NextApi == Next \/ \E h \in Handles : ClearWatchCall(h)

SpecApi == Init /\ [][NextApi]_vars


----------------------------------------------------------------------------
(* The tracking session: start and stop *)

\* C1: a start that follows another start, with no stop in between, registers
\* no watch with the platform, whatever handle the first start received.
C1_LaterStartRegistersNothing ==
    (lastOp = "start" /\ pre.started) => WatchIds(watches) = pre.ids

\* C2: one stop of an Active session cancels its subscription, clears the
\* stored handle and leaves the session Idle.
C2_StopLeavesIdle ==
    (lastOp = "stop" /\ pre.isTracking) =>
        /\ ~isTracking
        /\ watchId = NULL
        /\ pre.watchId \notin WatchIds(watches)

SessionAsBefore ==
    /\ isTracking = pre.isTracking
    /\ watchId = pre.watchId
    /\ locationStatus = pre.locationStatus
    /\ error = pre.error
    /\ selectedTracker = pre.selectedTracker

\* C3: stop on an Idle session, and clearWatch with a null handle or with a
\* handle that was handed out and is no longer registered, raise nothing and
\* leave the session, the stored handle and the platform's watches as they were.
C3_StopOnNothingChangesNothing ==
    (\/ lastOp = "stop" /\ ~pre.isTracking
     \/ lastOp = "clearWatch" /\ lastArg = NULL
     \/ lastOp = "clearWatch" /\ lastArg \in issued /\ lastArg \notin pre.ids)
    => (~threw /\ SessionAsBefore /\ WatchIds(watches) = pre.ids)

\* clearWatch was called with a handle that an earlier stop had cancelled
C3_Witness ==
    /\ lastOp = "clearWatch"
    /\ lastArg \in issued
    /\ lastArg \notin pre.ids
    /\ Truthy(lastArg)


----------------------------------------------------------------------------
(* geolocationAPI.getMultipleReadings(count, interval) *)

\* count is drawn from 0..MaxCount
MaxCount == 3
\* the platform's samples are built from the values 0..MaxCoord
MaxCoord == 2

\* what the success callback keeps of a position: lat, lng, accuracy
Samples == {[lat |-> v, lng |-> MaxCoord - v, accuracy |-> 2 * v + 1] : v \in 0..MaxCoord}

\* the GeolocationPositionError the platform passes to an error callback
PlatformError(kind) == [code |-> kind, message |-> "platform-defined"]

\* navigator.geolocation.getCurrentPosition on an undefined navigator.geolocation
TypeError == [code |-> "TypeError", message |-> "Cannot read properties of undefined"]

\* a / b, kept as the exact fraction
Divide(a, b) == [num |-> a, den |-> b]

\* rs.reduce((sum, r) => sum + r[f], 0)
RECURSIVE Reduce(_, _)
Reduce(rs, f) == IF rs = <<>> THEN 0 ELSE Reduce(SubSeq(rs, 1, Len(rs) - 1), f) + rs[Len(rs)][f]

\* the sum divided by count instead of readings.length
Average_ByCount(rs, f) == Divide(Reduce(rs, f), mrCount)

\* readings.reduce(...) / readings.length
Average(rs, f) == Divide(Reduce(rs, f), Len(rs))

\* the object the promise resolves with (timestamp: Date.now() left out)
Result(rs) ==
    [lat |-> Average(rs, "lat"), lng |-> Average(rs, "lng"),
     accuracy |-> Average(rs, "accuracy"), readings |-> rs]

\* resolve(v) and reject(e) settle the promise once
Resolve(v) ==
    IF mrState = "pending"
    THEN mrState' = "resolved" /\ mrResult' = v /\ UNCHANGED mrError
    ELSE UNCHANGED <<mrState, mrResult, mrError>>

Reject(e) ==
    IF mrState = "pending"
    THEN mrState' = "rejected" /\ mrError' = e /\ UNCHANGED mrResult
    ELSE UNCHANGED <<mrState, mrResult, mrError>>

\* getReading(): one getCurrentPosition call
getReading ==
    /\ outstanding' = outstanding + 1
    /\ queriesIssued' = queriesIssued + 1

\* getMultipleReadings(c): the promise executor, up to the first query
GetMultipleReadings(c) ==
    /\ mrState = "idle"
    /\ mrCount' = c
    /\ readings' = <<>>
    /\ currentCount' = 0
    /\ IF hasGeo
       THEN getReading /\ mrState' = "pending" /\ UNCHANGED mrError
       ELSE /\ mrState' = "rejected"
            /\ mrError' = TypeError
            /\ UNCHANGED <<outstanding, queriesIssued>>
    /\ UNCHANGED <<timers, mrResult, acquired, timersScheduled, timersFired,
                   failedAt, failure>>
    /\ UNCHANGED <<trackVars, classifyVars, errorVars>>

\* the success callback scheduling the next reading whatever currentCount is
OnReading_AlwaysWaits(s) ==
    /\ outstanding > 0
    /\ outstanding' = outstanding - 1
    /\ acquired' = Append(acquired, s)
    /\ readings' = Append(readings, s)
    /\ currentCount' = currentCount + 1
    /\ IF currentCount + 1 >= mrCount
       THEN Resolve(Result(Append(readings, s)))
       ELSE UNCHANGED <<mrState, mrResult, mrError>>
    /\ timers' = timers + 1
    /\ timersScheduled' = timersScheduled + 1
    /\ UNCHANGED <<mrCount, queriesIssued, timersFired, failedAt, failure>>
    /\ UNCHANGED <<trackVars, classifyVars, errorVars>>

\* the success callback of getReading's query
OnReading(s) ==
    /\ outstanding > 0
    /\ outstanding' = outstanding - 1
    /\ acquired' = Append(acquired, s)
    /\ readings' = Append(readings, s)
    /\ currentCount' = currentCount + 1
    /\ IF currentCount + 1 >= mrCount
       THEN /\ Resolve(Result(Append(readings, s)))
            /\ UNCHANGED <<timers, timersScheduled>>
       ELSE /\ timers' = timers + 1
            /\ timersScheduled' = timersScheduled + 1
            /\ UNCHANGED <<mrState, mrResult, mrError>>
    /\ UNCHANGED <<mrCount, queriesIssued, timersFired, failedAt, failure>>
    /\ UNCHANGED <<trackVars, classifyVars, errorVars>>

\* the error callback averaging what it has instead of rejecting
OnReadingError_Partial(e) ==
    /\ outstanding > 0
    /\ outstanding' = outstanding - 1
    /\ failedAt' = IF failedAt = 0 THEN queriesIssued ELSE failedAt
    /\ failure' = IF failedAt = 0 THEN e ELSE failure
    /\ IF readings # <<>> THEN Resolve(Result(readings)) ELSE Reject(e)
    /\ UNCHANGED <<mrCount, readings, currentCount, timers, acquired, queriesIssued,
                   timersScheduled, timersFired>>
    /\ UNCHANGED <<trackVars, classifyVars, errorVars>>

\* the error callback of getReading's query: reject(error)
OnReadingError(e) ==
    /\ outstanding > 0
    /\ outstanding' = outstanding - 1
    /\ failedAt' = IF failedAt = 0 THEN queriesIssued ELSE failedAt
    /\ failure' = IF failedAt = 0 THEN e ELSE failure
    /\ Reject(e)
    /\ UNCHANGED <<mrCount, readings, currentCount, timers, acquired, queriesIssued,
                   timersScheduled, timersFired>>
    /\ UNCHANGED <<trackVars, classifyVars, errorVars>>

\* setTimeout(getReading, interval) elapses
TimerFire ==
    /\ timers > 0
    /\ timers' = timers - 1
    /\ timersFired' = timersFired + 1
    /\ getReading
    /\ UNCHANGED <<mrCount, mrState, readings, currentCount, mrResult, mrError,
                   acquired, timersScheduled, failedAt, failure>>
    /\ UNCHANGED <<trackVars, classifyVars, errorVars>>

ReadingsInit ==
    /\ hasGeo \in BOOLEAN
    /\ nextWatchId = 0
    /\ Mounted
    /\ ReadingsIdle
    /\ ClassifyIdle
    /\ ErrorsIdle

NextReadings ==
    \/ \E c \in 0..MaxCount : GetMultipleReadings(c)
    \/ \E s \in Samples : OnReading(s)
    \/ \E kind \in WatchErrorKinds : OnReadingError(PlatformError(kind))
    \/ TimerFire

SpecReadings == ReadingsInit /\ [][NextReadings]_vars

\* the sum of field f over seq, by index
Total(seq, f) ==
    LET sum[i \in 0..Len(seq)] == IF i = 0 THEN 0 ELSE sum[i - 1] + seq[i][f]
    IN  sum[Len(seq)]

\* the fraction q is the arithmetic mean of field f over seq
IsMean(q, seq, f) ==
    /\ Len(seq) > 0
    /\ q.den # 0
    /\ q.num * Len(seq) = q.den * Total(seq, f)

\* C4: once query number k has failed, the promise is rejected with that very
\* error, query k is the last one issued, no wait is pending and no averaged
\* result was delivered.
C4_FailureAbortsWithThatError ==
    failedAt # 0 =>
        /\ mrState = "rejected"
        /\ mrError = failure
        /\ mrResult = NoResult
        /\ queriesIssued = failedAt
        /\ outstanding = 0
        /\ timers = 0

\* the second of three queries failed, after one sample had been collected
C4_Witness ==
    /\ mrCount = 3
    /\ failedAt = 2
    /\ Len(readings) = 1

\* C5: a resolved result holds the samples in acquisition order, and its
\* lat, lng and accuracy are the arithmetic means over those samples.
C5_ResultIsMeanInOrder ==
    mrState = "resolved" =>
        /\ mrResult.readings = acquired
        /\ IsMean(mrResult.lat, acquired, "lat")
        /\ IsMean(mrResult.lng, acquired, "lng")
        /\ IsMean(mrResult.accuracy, acquired, "accuracy")

\* three samples, not all equal, were averaged
C5_Witness ==
    /\ mrState = "resolved"
    /\ Len(acquired) = 3
    /\ acquired[1] # acquired[2]
    /\ acquired[2] # acquired[3]

\* C6: with every query succeeding, exactly count queries are issued and the
\* result holds exactly count samples, for every count >= 0.
C6_ExactlyCountQueries ==
    mrState = "resolved" =>
        /\ queriesIssued = mrCount
        /\ Len(mrResult.readings) = mrCount

\* C7: at most one query or wait is pending at a time; every query after the
\* first is issued by an elapsed wait that followed a successful query; and no
\* wait is scheduled after the last sample.
C7_StrictlySequential ==
    /\ outstanding + timers <= 1
    /\ queriesIssued > 0 => queriesIssued = timersFired + 1
    /\ timersScheduled = timersFired + timers
    /\ queriesIssued = Len(acquired) + outstanding + (IF failedAt # 0 THEN 1 ELSE 0)
    /\ timers > 0 => (mrState = "pending" /\ currentCount < mrCount)
    /\ mrState = "resolved" => timersScheduled = Len(acquired) - 1

\* three queries were made one after the other, two waits between them
C7_Witness ==
    /\ mrState = "resolved"
    /\ mrCount = 3
    /\ queriesIssued = 3
    /\ timersFired = 2


----------------------------------------------------------------------------
(* geolocationAPI.analyzeLocationAccuracy(position) *)

\* accuracy is counted in units of 1/Scale metre
Scale == 2
\* accuracy is drawn from 0 to MaxAccuracy metres
MaxAccuracy == 105

\* m metres, in units
Metres(m) == m * Scale

\* position.coords: altitude, altitudeAccuracy, speed and heading may be null
Coords ==
    [accuracy : 0..Metres(MaxAccuracy),
     altitude : {NULL, 12},
     altitudeAccuracy : {NULL, 50, 51},
     speed : {NULL, 0, 5},
     heading : {NULL, 90}]

Protocols == {"https:", "http:"}

Hostnames == {"localhost", "127.0.0.1", "example.com"}

\* checkGeolocationSupport(): "resolved", or the message it rejects with
checkGeolocationSupport(geo, proto, host) ==
    IF ~geo
    THEN "Geolocation is not supported by this browser"
    ELSE IF proto # "https:" /\ host # "localhost" /\ host # "127.0.0.1"
    THEN "Geolocation requires HTTPS or localhost. Please use HTTPS or run on localhost."
    ELSE "resolved"

\* the tiers with every bound read as <= instead of <
AccuracyLevel_Inclusive(a) ==
    IF a <= Metres(5) THEN "Excellent"
    ELSE IF a <= Metres(10) THEN "Very High"
    ELSE IF a <= Metres(20) THEN "High"
    ELSE IF a <= Metres(50) THEN "Medium"
    ELSE IF a <= Metres(100) THEN "Low"
    ELSE "Very Low"

\* the tiers with the accuracy < 100 test left out
AccuracyLevel_NoLow(a) ==
    IF a < Metres(5) THEN "Excellent"
    ELSE IF a < Metres(10) THEN "Very High"
    ELSE IF a < Metres(20) THEN "High"
    ELSE IF a < Metres(50) THEN "Medium"
    ELSE "Very Low"

\* accuracyLevel: the nested conditional
AccuracyLevel(a) ==
    IF a < Metres(5) THEN "Excellent"
    ELSE IF a < Metres(10) THEN "Very High"
    ELSE IF a < Metres(20) THEN "High"
    ELSE IF a < Metres(50) THEN "Medium"
    ELSE IF a < Metres(100) THEN "Low"
    ELSE "Very Low"

WarnPoor == "Location accuracy is very poor (>100m). This might be network-based location."
RecOutdoors == "Try moving outdoors with clear sky view for better GPS accuracy."
WarnLow == "Location accuracy is low (50-100m). GPS signal might be weak."
RecOpenArea == "Move to an open area or near a window for better GPS reception."
InfoModerate == "Location accuracy is moderate (20-50m). GPS is working but could be better."
RecSettle == "Wait a few moments for GPS to settle, or move to a more open area."
InfoGood == "Location accuracy is good (10-20m). GPS is working well."
InfoExcellent == "Location accuracy is excellent (<10m). GPS is working optimally."
WarnAltitude == "Altitude accuracy is poor. This is normal for GPS."
RecAssisted == "Consider enabling WiFi and mobile networks for assisted GPS."
RecHighAccuracy == "Make sure location services are set to \"High Accuracy\" mode."
WarnHttps == "Not using HTTPS. Some browsers limit geolocation accuracy on HTTP."
RecHttps == "Use HTTPS for maximum geolocation accuracy."

\* "Accuracy analysis": what the if / else-if chain pushes
Band(a) ==
    IF a > Metres(100)
    THEN [warnings |-> <<WarnPoor>>, info |-> <<>>, recommendations |-> <<RecOutdoors>>]
    ELSE IF a > Metres(50)
    THEN [warnings |-> <<WarnLow>>, info |-> <<>>, recommendations |-> <<RecOpenArea>>]
    ELSE IF a > Metres(20)
    THEN [warnings |-> <<>>, info |-> <<InfoModerate>>, recommendations |-> <<RecSettle>>]
    ELSE IF a > Metres(10)
    THEN [warnings |-> <<>>, info |-> <<InfoGood>>, recommendations |-> <<>>]
    ELSE [warnings |-> <<>>, info |-> <<InfoExcellent>>, recommendations |-> <<>>]

\* the altitude warning given from 50 m on, not only above 50 m
AltitudeWarnings_From50(altitude, altitudeAccuracy) ==
    IF altitude # NULL /\ altitudeAccuracy # NULL /\ altitudeAccuracy >= 50
    THEN <<WarnAltitude>>
    ELSE <<>>

\* "Altitude analysis"
AltitudeWarnings(altitude, altitudeAccuracy) ==
    IF altitude # NULL /\ altitudeAccuracy # NULL /\ altitudeAccuracy > 50
    THEN <<WarnAltitude>>
    ELSE <<>>

\* (tenths / 10).toFixed(1)
Fixed1(tenths) == ToString(tenths \div 10) \o "." \o ToString(tenths % 10)

\* "Speed analysis": speed * 3.6 km/h, one decimal
SpeedInfo(speed) ==
    IF speed # NULL /\ speed > 0
    THEN <<"Device is moving at " \o Fixed1(36 * speed) \o " km/h">>
    ELSE <<>>

\* "Heading analysis" (the degree sign of the source is left out)
HeadingInfo(heading) ==
    IF heading # NULL
    THEN <<"Device heading: " \o Fixed1(10 * heading)>>
    ELSE <<>>

\* the two recommendations given from 20 m on, not only above 20 m
EnvironmentRecommendations_From20(a) ==
    IF a >= Metres(20) THEN <<RecAssisted, RecHighAccuracy>> ELSE <<>>

\* "Environment recommendations"
EnvironmentRecommendations(a) ==
    IF a > Metres(20) THEN <<RecAssisted, RecHighAccuracy>> ELSE <<>>

\* "Browser recommendations": window.location.protocol !== "https:"
BrowserAdvice(proto) ==
    IF proto # "https:"
    THEN [warnings |-> <<WarnHttps>>, recommendations |-> <<RecHttps>>]
    ELSE [warnings |-> <<>>, recommendations |-> <<>>]

analyzeLocationAccuracy(coords, proto) ==
    LET band == Band(coords.accuracy)
        browser == BrowserAdvice(proto)
    IN  [accuracy |-> coords.accuracy,
         accuracyLevel |-> AccuracyLevel(coords.accuracy),
         warnings |-> band.warnings
                      \o AltitudeWarnings(coords.altitude, coords.altitudeAccuracy)
                      \o browser.warnings,
         info |-> band.info \o SpeedInfo(coords.speed) \o HeadingInfo(coords.heading),
         recommendations |-> band.recommendations
                             \o EnvironmentRecommendations(coords.accuracy)
                             \o browser.recommendations]

\* one call of analyzeLocationAccuracy on the sample
AnalyzeLocationAccuracy ==
    /\ analysis = NoAnalysis
    /\ analysis' = analyzeLocationAccuracy(position, protocol)
    /\ UNCHANGED <<position, protocol, hostname, support, trackVars, readingVars, errorVars>>

\* one call of checkGeolocationSupport on the page
CheckGeolocationSupport ==
    /\ support = "unchecked"
    /\ support' = checkGeolocationSupport(hasGeo, protocol, hostname)
    /\ UNCHANGED <<position, protocol, hostname, analysis, trackVars, readingVars, errorVars>>

ClassifyInit ==
    /\ position \in Coords
    /\ protocol \in Protocols
    /\ hostname \in Hostnames
    /\ support = "unchecked"
    /\ analysis = NoAnalysis
    /\ hasGeo \in BOOLEAN
    /\ nextWatchId = 0
    /\ Mounted
    /\ ReadingsIdle
    /\ ErrorsIdle

NextClassify == AnalyzeLocationAccuracy \/ CheckGeolocationSupport

SpecClassify == ClassifyInit /\ [][NextClassify]_vars

Analysed == analysis # NoAnalysis

\* C8: the tier is the first match of the threshold table
\* <5 Excellent, <10 Very High, <20 High, <50 Medium, <100 Low, else Very Low.
C8_TierIsFirstMatch ==
    Analysed =>
        LET a == position.accuracy
            t == analysis.accuracyLevel
        IN  /\ t = "Excellent" <=> a < Metres(5)
            /\ t = "Very High" <=> (Metres(5) <= a /\ a < Metres(10))
            /\ t = "High"      <=> (Metres(10) <= a /\ a < Metres(20))
            /\ t = "Medium"    <=> (Metres(20) <= a /\ a < Metres(50))
            /\ t = "Low"       <=> (Metres(50) <= a /\ a < Metres(100))
            /\ t = "Very Low"  <=> Metres(100) <= a

\* a sample just under 100 m, not a whole number of metres, was classified
C8_Witness ==
    /\ Analysed
    /\ position.accuracy = Metres(100) - 1
    /\ analysis.accuracyLevel = "Low"

\* C9 as stated: an accuracy of exactly 10 m is tier Very High.
C9_TenIsVeryHigh ==
    (Analysed /\ position.accuracy = Metres(10)) => analysis.accuracyLevel = "Very High"

\* C9 amended: an accuracy of exactly 10 m is tier High (the < 10 bound of
\* Very High is exclusive).
C9_TenIsHigh ==
    (Analysed /\ position.accuracy = Metres(10)) => analysis.accuracyLevel = "High"

\* a sample of exactly 10 m was classified
C9_Witness == Analysed /\ position.accuracy = Metres(10)

BandMessages == {WarnPoor, WarnLow, InfoModerate, InfoGood, InfoExcellent}

\* how many entries of seq are in set
Count(seq, set) == Cardinality({i \in 1..Len(seq) : seq[i] \in set})

\* C10: exactly one accuracy-band message is emitted, that of the band holding
\* the value, and the assisted-positioning and high-accuracy recommendations
\* follow the band's own recommendation exactly when accuracy > 20 m.
C10_OneBandMessage ==
    Analysed =>
        LET a == position.accuracy
            w == analysis.warnings
            i == analysis.info
            r == analysis.recommendations
        IN  /\ Count(w, BandMessages) + Count(i, BandMessages) = 1
            /\ a > Metres(100) => (w[1] = WarnPoor /\ r[1] = RecOutdoors)
            /\ (Metres(50) < a /\ a <= Metres(100)) => (w[1] = WarnLow /\ r[1] = RecOpenArea)
            /\ (Metres(20) < a /\ a <= Metres(50)) => (i[1] = InfoModerate /\ r[1] = RecSettle)
            /\ (Metres(10) < a /\ a <= Metres(20)) => i[1] = InfoGood
            /\ a <= Metres(10) => i[1] = InfoExcellent
            /\ a > Metres(20) => (Len(r) >= 3 /\ r[2] = RecAssisted /\ r[3] = RecHighAccuracy)
            /\ Count(r, {RecAssisted, RecHighAccuracy}) = (IF a > Metres(20) THEN 2 ELSE 0)

\* a sample just above 20 m on an http page: the band's recommendation, the two
\* extra ones, then the HTTPS one
C10_Witness ==
    /\ Analysed
    /\ position.accuracy = Metres(20) + 1
    /\ analysis.recommendations = <<RecSettle, RecAssisted, RecHighAccuracy, RecHttps>>


Range(seq) == {seq[k] : k \in 1..Len(seq)}

\* C11 as stated: the altitude-accuracy warning is given exactly when
\* altitudeAccuracy is present and above 50, whether or not altitude is present.
C11_AltitudeAccuracyAlone ==
    Analysed =>
        (WarnAltitude \in Range(analysis.warnings)
         <=> (position.altitudeAccuracy # NULL /\ position.altitudeAccuracy > 50))

\* C11 amended: the altitude-accuracy warning is given exactly when altitude
\* and altitudeAccuracy are both present and altitudeAccuracy is above 50.
C11_AltitudeWarningNeedsAltitude ==
    Analysed =>
        (WarnAltitude \in Range(analysis.warnings)
         <=> (/\ position.altitude # NULL
              /\ position.altitudeAccuracy # NULL
              /\ position.altitudeAccuracy > 50))

\* a sample with an altitude and an altitude accuracy of 51 m got the warning
C11_Witness ==
    /\ Analysed
    /\ position.altitude # NULL
    /\ position.altitudeAccuracy = 51
    /\ WarnAltitude \in Range(analysis.warnings)


\* the page is on a secure transport: an encrypted or a loopback origin
SecureTransport ==
    protocol = "https:" \/ hostname \in {"localhost", "127.0.0.1"}

\* C12: the secure-transport warning and recommendation are given exactly when
\* the page is not on a secure transport (encrypted or loopback), so never in
\* a context that checkGeolocationSupport accepts.
C12_WarningIffNotSecure ==
    Analysed =>
        /\ WarnHttps \in Range(analysis.warnings) <=> ~SecureTransport
        /\ RecHttps \in Range(analysis.recommendations) <=> ~SecureTransport
        /\ support = "resolved" => WarnHttps \notin Range(analysis.warnings)


-----------------------------------------------------------------------------
(* Error channels: what each acquiring entry point hands to its caller when *)
(* the platform reports a GeolocationPositionError of a given kind          *)

Delivered(c, kind, msg) == [delivered EXCEPT ![c] = [kind |-> kind, message |-> msg]]

\* requestLocationPermission / getCurrentPosition: reject(new Error(errorMessage))
RequestError(kind) ==
    /\ delivered' = Delivered("request", kind, RequestErrorMessage(kind))
    /\ UNCHANGED <<trackVars, readingVars, classifyVars>>

\* watchPosition: errorCallback(new Error(errorMessage))
WatchError(kind) ==
    /\ delivered' = Delivered("watch", kind, WatchErrorMessage(kind))
    /\ UNCHANGED <<trackVars, readingVars, classifyVars>>

\* getMultipleReadings: reject(error), the platform's error object as it came
ReadingsError(kind) ==
    /\ delivered' = Delivered("readings", kind, PlatformError(kind).message)
    /\ UNCHANGED <<trackVars, readingVars, classifyVars>>

ErrorsInit ==
    /\ hasGeo = TRUE
    /\ nextWatchId = 0
    /\ Mounted
    /\ ReadingsIdle
    /\ ClassifyIdle
    /\ ErrorsIdle

NextErrors ==
    \/ \E kind \in WatchErrorKinds : RequestError(kind)
    \/ \E kind \in WatchErrorKinds : WatchError(kind)
    \/ \E kind \in WatchErrorKinds : ReadingsError(kind)

SpecErrors == ErrorsInit /\ [][NextErrors]_vars

\* C13: for a given error kind, the one-shot query, the watch and
\* getMultipleReadings all deliver the same message.
C13_OneMessagePerKind ==
    \A a, b \in Channels :
        (delivered[a].kind # "none" /\ delivered[a].kind = delivered[b].kind)
            => delivered[a].message = delivered[b].message


-----------------------------------------------------------------------------
(* The tracking session: capability, stray samples, persistence, selection *)

\* C14: without navigator.geolocation, watchPosition raises nothing, calls the
\* error callback exactly once, never the sample callback, registers no watch
\* and returns no handle.
C14_NoCapabilityStart ==
    ~hasGeo =>
        /\ lastOp \notin {"sample", "straySample"}
        /\ watches = {}
        /\ issued = {}
        /\ lastOp = "start" =>
               /\ ~threw
               /\ effects = [onError |-> 1, update |-> NULL]
               /\ watchId = NULL
               /\ error = "Geolocation is not supported by this browser"

C14_Witness ==
    /\ ~hasGeo
    /\ lastOp = "start"
    /\ effects.onError = 1
    /\ watchId = NULL

\* C15: a sample delivered to the session's callback after stop has returned
\* sends no tracker update and changes nothing of the session.
C15_StraySampleIgnored ==
    lastOp = "straySample" => (effects.update = NULL /\ SessionAsBefore)

\* the session is Active and its watch is registered with the platform
Active(tracking, handle, ids) == tracking /\ handle # NULL /\ handle \in ids

\* C16: an Active session stays Active, with the same watch registered, across
\* error callbacks and samples; it leaves Active only by stopAutoTracking,
\* called directly or when the deletion of the selected tracker completes.
C16_ActiveUntilStopped ==
    Active(pre.isTracking, pre.watchId, pre.ids) =>
        /\ lastOp \in {"sample", "straySample", "watchError"} =>
               (watchId = pre.watchId /\ Active(isTracking, watchId, WatchIds(watches)))
        /\ ~Active(isTracking, watchId, WatchIds(watches)) =>
               lastOp \in {"stop", "deleteDone"}

\* a second error in a row reached the Active session
C16_Witness ==
    /\ hasGeo
    /\ lastOp = "watchError"
    /\ pre.locationStatus = "Auto-tracking failed"
    /\ Active(pre.isTracking, pre.watchId, pre.ids)
    /\ Active(isTracking, watchId, WatchIds(watches))

\* C17: isTracking holds exactly when a handle is stored and that watch is
\* registered with the platform.
C17_ActiveIffSubscribed ==
    isTracking <=> (watchId # NULL /\ watchId \in WatchIds(watches))

\* C18: while tracking is active, a sample is sent as an update for the
\* tracker selected when the sample arrives.
C18_UpdateGoesToSelected ==
    (lastOp = "sample" /\ isTracking) => effects.update = selectedTracker

\* C19: when the deletion of the currently selected tracker completes, the
\* selection is cleared and no watch is left registered.
C19_DeleteStopsTracking ==
    (lastOp = "deleteDone" /\ pre.selectedTracker = lastArg) =>
        (selectedTracker = NULL /\ ~isTracking /\ watches = {})

====
